---- MODULE Spec2Model ----
(***************************************************************************)
(* Model of the constraint-impulse solver core of DART:                    *)
(*   - PgsBoxedLcpSolver::solve (array form), dart/constraint/             *)
(*     PgsBoxedLcpSolver.cpp, as a row-by-row state machine (SpecPgs);     *)
(*   - SequentialImpulseConstraintSolver (constructor, setBoxedLcpSolver,  *)
(*     solveConstrainedGroup), dart/constraint/                            *)
(*     SequentialImpulseConstraintSolver.cpp (Spec).                       *)
(* double values are modelled as exact rationals <<p, q>>, q > 0, in       *)
(* lowest terms; rounding is not modelled.                                 *)
(***************************************************************************)
EXTENDS Integers, Sequences, FiniteSets, TLC

VARIABLES
  pc,                  \* position of the running operation
  n, A, x, b, lo, hi, findex, nub,      \* the LCP instance (arrays from 0)
  mOption,             \* PgsBoxedLcpSolver::mOption
  mCacheOrder,         \* PgsBoxedLcpSolver::mCacheOrder (sequence of rows)
  possibleToTerminate, \* local of solve
  i,                   \* loop index: row / position in mCacheOrder / constraint
  iter,                \* local of solve: iteration counter
  entryA, entryB, entryX,  \* history: A, b, x as passed to solve
  sweeps,              \* history: number of sweeps performed by this call
  retPath,             \* history: the return path taken by solve
  lastSweep,           \* history: rows in the order the last sweep visited them
  group,               \* ConstrainedGroup: sequence of constraint dimensions
  env,                 \* behaviour of the constraints and of the build
  w, offset, j,        \* locals of solveConstrainedGroup
  calls,               \* history: calls made on the constraints, in order
  excited,             \* per constraint: #excite - #unexcite
  mBoxedLcpSolver,     \* SequentialImpulseConstraintSolver::mBoxedLcpSolver
  useCount,            \* shared_ptr use count of every solver instance
  supplied,            \* history: the last and the last non-null solver supplied
  solvedBy,            \* history: the solver instance solve was invoked on
  localFindex,         \* history: the local findex values getInformation wrote
  mCacheOldX,          \* matrix-form solve: x before the sweep
  mCacheZ,             \* matrix-form solve: right-hand side of the sweep
  mCachedNormalizedA,  \* matrix-form solve: A with rows divided by the diagonal
  mCachedNormalizedB,  \* matrix-form solve: b divided by the diagonal
  entryOrder           \* history: mCacheOrder when solve was called

vars == <<pc, n, A, x, b, lo, hi, findex, nub, mOption, mCacheOrder,
          possibleToTerminate, i, iter, entryA, entryB, entryX, sweeps,
          retPath, lastSweep, group, env, w, offset, j, calls, excited,
          mBoxedLcpSolver, useCount, supplied, solvedBy, localFindex,
          mCacheOldX, mCacheZ, mCachedNormalizedA, mCachedNormalizedB,
             entryOrder>>

pgsVars == <<n, A, x, b, lo, hi, findex, nub, mOption, mCacheOrder,
             possibleToTerminate, i, iter, entryA, entryB, entryX, sweeps,
             retPath, lastSweep>>

(***************************************************************************)
(* Exact rational arithmetic standing for double.                          *)
(***************************************************************************)
Abs(a) == IF a < 0 THEN -a ELSE a

RECURSIVE Gcd(_, _)
Gcd(a, c) == IF c = 0 THEN a ELSE Gcd(c, a % c)

Norm(p, q) ==
  LET g == Gcd(Abs(p), Abs(q))
      s == IF q < 0 THEN -1 ELSE 1
  IN  <<(s * p) \div g, (s * q) \div g>>

Rat(k) == <<k, 1>>
Zero == Rat(0)
One == Rat(1)
RAdd(a, c) == Norm(a[1] * c[2] + c[1] * a[2], a[2] * c[2])
RSub(a, c) == Norm(a[1] * c[2] - c[1] * a[2], a[2] * c[2])
RMul(a, c) == Norm(a[1] * c[1], a[2] * c[2])
RDiv(a, c) == Norm(a[1] * c[2], a[2] * c[1])
RNeg(a) == <<-a[1], a[2]>>
RAbs(a) == <<Abs(a[1]), a[2]>>
RLt(a, c) == a[1] * c[2] < c[1] * a[2]
RLe(a, c) == a[1] * c[2] <= c[1] * a[2]
RGt(a, c) == RLt(c, a)

(***************************************************************************)
(* Dense padded storage: row r of an n x n matrix starts at nskip * r.     *)
(***************************************************************************)
dPAD(a) == ((a + 3) \div 4) * 4

At(M, nn, r, c) == M[dPAD(nn) * r + c]

Rows(nn) == 0 .. (nn - 1)


Upd(f, k, v) == [f EXCEPT ![k] = v]

(***************************************************************************)
(* LDLT fast path (dFactorLDLT, dSolveLDLT): A = L D L', L unit lower      *)
(* triangular, written into the strict lower triangle of A; the solution   *)
(* of A x = b is written into b.  A zero pivot gives non-finite results.   *)
(***************************************************************************)
NaN == "nan"

RECURSIVE LD(_, _, _, _), SumLD(_, _, _, _, _)
\* LD(M, nn, r, k): the pivot d[k] when r = k, the entry L[r][k] when r > k
LD(M, nn, r, k) ==
  LET s == SumLD(M, nn, r, k, 0)
  IN  IF r = k THEN RSub(At(M, nn, k, k), s)
      ELSE RDiv(RSub(At(M, nn, r, k), s), LD(M, nn, k, k))
SumLD(M, nn, r, k, m) ==
  IF m >= k THEN Zero
  ELSE LET lr == LD(M, nn, r, m)
           lk == IF k = r THEN lr ELSE LD(M, nn, k, m)
       IN  RAdd(RMul(RMul(lr, lk), LD(M, nn, m, m)), SumLD(M, nn, r, k, m + 1))

RECURSIVE PivotsOk(_, _, _)
PivotsOk(M, nn, k) ==
  k < 0 \/ (PivotsOk(M, nn, k - 1) /\ LD(M, nn, k, k) # Zero)

dFactorLDLT(M, nn) ==
  [idx \in DOMAIN M |->
     LET r == idx \div dPAD(nn)
         c == idx % dPAD(nn)
     IN  IF c < r /\ r < nn
         THEN (IF PivotsOk(M, nn, nn - 1) THEN LD(M, nn, r, c) ELSE NaN)
         ELSE M[idx]]

RECURSIVE FwdY(_, _, _, _), SumFwd(_, _, _, _, _)
FwdY(M, bb, nn, r) == RSub(bb[r], SumFwd(M, bb, nn, r, 0))
SumFwd(M, bb, nn, r, m) ==
  IF m >= r THEN Zero
  ELSE RAdd(RMul(LD(M, nn, r, m), FwdY(M, bb, nn, m)), SumFwd(M, bb, nn, r, m + 1))

RECURSIVE BackX(_, _, _, _), SumBack(_, _, _, _, _)
BackX(M, bb, nn, r) ==
  RSub(RDiv(FwdY(M, bb, nn, r), LD(M, nn, r, r)), SumBack(M, bb, nn, r, r + 1))
SumBack(M, bb, nn, r, m) ==
  IF m >= nn THEN Zero
  ELSE RAdd(RMul(LD(M, nn, m, r), BackX(M, bb, nn, m)), SumBack(M, bb, nn, r, m + 1))

dSolveLDLT(M, bb, nn) ==
  [r \in Rows(nn) |-> IF PivotsOk(M, nn, nn - 1) THEN BackX(M, bb, nn, r) ELSE NaN]

(***************************************************************************)
(* One row update of projected Gauss-Seidel.                               *)
(***************************************************************************)
RECURSIVE SubDot(_, _, _, _, _, _)
\* acc - sum over c # r, c >= from, of A[r][c] * x[c]
SubDot(acc, M, xx, nn, r, from) ==
  IF from >= nn THEN acc
  ELSE IF from = r THEN SubDot(acc, M, xx, nn, r, from + 1)
  ELSE SubDot(RSub(acc, RMul(At(M, nn, r, from), xx[from])), M, xx, nn, r, from + 1)

ClampNoUpper(new_x, lo_tmp, hi_tmp) ==
  IF RLt(new_x, lo_tmp) THEN lo_tmp ELSE new_x

Clamp(new_x, lo_tmp, hi_tmp) ==
  IF RGt(new_x, hi_tmp) THEN hi_tmp
  ELSE IF RLt(new_x, lo_tmp) THEN lo_tmp
  ELSE new_x

ProjectIgnoringFindex(new_x, r, xx, loo, hii, fi) ==
  Clamp(new_x, loo[r], hii[r])

\* the value written to x[r]: friction-aware box projection of new_x
Project(new_x, r, xx, loo, hii, fi) ==
  IF fi[r] >= 0
  THEN LET hi_tmp == RMul(hii[r], xx[fi[r]])
       IN  Clamp(new_x, RNeg(hi_tmp), hi_tmp)
  ELSE Clamp(new_x, loo[r], hii[r])

IsDegenerate(M, nn, r) == RLt(At(M, nn, r, r), mOption.mEpsilonForDivision)

DegenerateRowKeepsX(xx, r) == xx

DegenerateRow(xx, r) == Upd(xx, r, Zero)

\* lines 157-163: divide row `index` of A and b[index] by the diagonal
RECURSIVE NormalizeA(_, _, _), NormalizeB(_, _, _, _)
NormalizeA(M, nn, order) ==
  IF order = <<>> THEN M
  ELSE LET index == Head(order)
           dummy == RDiv(One, At(M, nn, index, index))
           M2 == [idx \in DOMAIN M |->
                    IF idx \div dPAD(nn) = index /\ idx % dPAD(nn) < nn
                    THEN RMul(M[idx], dummy) ELSE M[idx]]
       IN  NormalizeA(M2, nn, Tail(order))
NormalizeB(M, bb, nn, order) ==
  IF order = <<>> THEN bb
  ELSE LET index == Head(order)
           dummy == RDiv(One, At(M, nn, index, index))
       IN  NormalizeB(M, Upd(bb, index, RMul(bb[index], dummy)), nn, Tail(order))

Swap(order, p, q) ==
  [order EXCEPT ![p + 1] = order[q + 1], ![q + 1] = order[p + 1]]

\* lines 171-177: every order the shuffle can produce, from position p on
RECURSIVE Shuffled(_, _)
Shuffled(order, p) ==
  IF p >= Len(order) THEN {order}
  ELSE UNION {Shuffled(Swap(order, p, swapi), p + 1) : swapi \in 0 .. p}

LoopRunsOnceMore(it, maxIteration) == it <= maxIteration

LoopContinues(it, maxIteration) == it < maxIteration


(***************************************************************************)
(* Inputs of the array-form solve.                                         *)
(***************************************************************************)
Dims == {1, 2}
DiagVals == {0, 1, 2}
OffVals == {-1, 0, 1}
BVals == {-2, 3}
Boxes == {<<-4, 4>>, <<0, 2>>, <<-4, -1>>}
\* a friction row carries bounds -mu, mu (only hi = mu is read)
FrictionBoxes == {<<-1, 1>>, <<-2, 2>>}
XVals == {0, 1}

Flat(nn, D, o) ==
  [idx \in 0 .. (nn * dPAD(nn) - 1) |->
     LET r == idx \div dPAD(nn)
         c == idx % dPAD(nn)
     IN  IF c >= nn THEN Zero ELSE IF r = c THEN Rat(D[r]) ELSE Rat(o)]

MatricesOf(nn) == {Flat(nn, D, o) : D \in [Rows(nn) -> DiagVals], o \in OffVals}

RatVec(f) == [r \in DOMAIN f |-> Rat(f[r])]

\* at most one friction row, referring to another row
FindexOf(nn) ==
  {f \in [Rows(nn) -> -1 .. (nn - 1)] :
     /\ \A r \in Rows(nn) : f[r] # r
     /\ Cardinality({r \in Rows(nn) : f[r] >= 0}) <= 1}

Option(maxIteration, randomizeConstraintOrder) ==
  [mMaxIteration |-> maxIteration,
   mDeltaXThreshold |-> <<1, 2>>,
   mRelativeDeltaXTolerance |-> <<1, 4>>,
   mEpsilonForDivision |-> <<1, 4>>,
   mRandomizeConstraintOrder |-> randomizeConstraintOrder]

Options == {Option(m, FALSE) : m \in 0 .. 2} \cup {Option(9, TRUE)}

\* the values of the variables of SequentialImpulseConstraintSolver while
\* the array-form solve is studied on its own
NoGroup ==
  /\ group = <<>>
  /\ env = <<>>
  /\ w = <<>>
  /\ offset = <<>>
  /\ j = 0
  /\ calls = <<>>
  /\ excited = <<>>
  /\ mBoxedLcpSolver = "pgs"
  /\ useCount = <<>>
  /\ supplied = [last |-> "pgs", lastNonNull |-> "pgs"]
  /\ solvedBy = "none"
  /\ localFindex = <<>>

\* the caches of the matrix-form solve before it has run
NoEigen ==
  /\ mCacheOldX = <<>>
  /\ mCacheZ = <<>>
  /\ mCachedNormalizedA = <<>>
  /\ mCachedNormalizedB = <<>>

groupVars == <<group, env, w, offset, j, calls, excited, mBoxedLcpSolver,
               useCount, supplied, solvedBy, localFindex,
               mCacheOldX, mCacheZ, mCachedNormalizedA, mCachedNormalizedB,
             entryOrder>>

\* calls that take the iterative path (nub < n)
BoxedInputs ==
  /\ nub = 0
  /\ findex \in FindexOf(n)
  /\ \E bx \in [Rows(n) -> Boxes \cup FrictionBoxes] :
       /\ \A r \in Rows(n) : (findex[r] >= 0) <=> (bx[r] \in FrictionBoxes)
       /\ lo = [r \in Rows(n) |-> Rat(bx[r][1])]
       /\ hi = [r \in Rows(n) |-> Rat(bx[r][2])]
  /\ x \in {RatVec(f) : f \in [Rows(n) -> XVals]}
  /\ mOption \in Options

\* calls that declare every variable unbounded (nub >= n)
UnboundedInputs ==
  /\ nub \in {n, n + 1}
  /\ findex = [r \in Rows(n) |-> -1]
  /\ \E bx \in Boxes :
       /\ lo = [r \in Rows(n) |-> Rat(bx[1])]
       /\ hi = [r \in Rows(n) |-> Rat(bx[2])]
  /\ x = [r \in Rows(n) |-> Zero]
  /\ mOption = Option(2, FALSE)

\* mCacheOrder is a member: it holds what an earlier call left in it
LeftoverOrders == {<<>>, <<0>>}

InitPgs ==
  /\ pc = "solve"
  /\ n \in Dims
  /\ A \in MatricesOf(n)
  /\ b \in {RatVec(f) : f \in [Rows(n) -> BVals]}
  /\ (BoxedInputs \/ UnboundedInputs)
  /\ mCacheOrder \in LeftoverOrders
  /\ entryOrder = mCacheOrder
  /\ possibleToTerminate = TRUE
  /\ i = 0
  /\ iter = 0
  /\ entryA = A
  /\ entryB = b
  /\ entryX = x
  /\ sweeps = 0
  /\ retPath = "none"
  /\ lastSweep = <<>>
  /\ NoGroup
  /\ NoEigen

(***************************************************************************)
(* PgsBoxedLcpSolver::solve(n, A, x, b, nub, lo, hi, findex)               *)
(***************************************************************************)
\* lines 78-88
SolveUnbounded ==
  /\ pc = "solve"
  /\ nub >= n
  /\ A' = dFactorLDLT(A, n)
  /\ b' = dSolveLDLT(A, b, n)
  /\ x' = b'
  /\ retPath' = "ldlt"
  /\ pc' = "done"
  /\ UNCHANGED <<n, lo, hi, findex, nub, mOption, mCacheOrder,
                 possibleToTerminate, i, iter, entryA, entryB, entryX, sweeps,
                 lastSweep>>
  /\ UNCHANGED groupVars

KeepsOrder(order) == order

\* line 90: mCacheOrder.clear()
ClearOrder(order) == <<>>

\* lines 90-94
SolveBegin ==
  /\ pc = "solve"
  /\ nub < n
  /\ mCacheOrder' = ClearOrder(mCacheOrder)
  /\ possibleToTerminate' = TRUE
  /\ i' = 0
  /\ sweeps' = 1
  /\ lastSweep' = <<>>
  /\ pc' = "first"
  /\ UNCHANGED <<n, A, x, b, lo, hi, findex, nub, mOption, iter, entryA,
                 entryB, entryX, retPath>>
  /\ UNCHANGED groupVars

\* lines 97-101
FirstSweepDegenerate ==
  /\ pc = "first"
  /\ i < n
  /\ IsDegenerate(A, n, i)
  /\ x' = DegenerateRow(x, i)
  /\ i' = i + 1
  /\ lastSweep' = Append(lastSweep, i)
  /\ UNCHANGED <<pc, n, A, b, lo, hi, findex, nub, mOption, mCacheOrder,
                 possibleToTerminate, iter, entryA, entryB, entryX, sweeps,
                 retPath>>
  /\ UNCHANGED groupVars

\* lines 103-147
FirstSweepRow ==
  /\ pc = "first"
  /\ i < n
  /\ ~IsDegenerate(A, n, i)
  /\ LET old_x == x[i]
         new_x == RDiv(SubDot(b[i], A, x, n, i, 0), At(A, n, i, i))
         v == Project(new_x, i, x, lo, hi, findex)
         deltaX == RAbs(RSub(v, old_x))
     IN  /\ x' = Upd(x, i, v)
         /\ possibleToTerminate' =
              (possibleToTerminate /\ ~RGt(deltaX, mOption.mDeltaXThreshold))
  /\ mCacheOrder' = Append(mCacheOrder, i)
  /\ i' = i + 1
  /\ lastSweep' = Append(lastSweep, i)
  /\ UNCHANGED <<pc, n, A, b, lo, hi, findex, nub, mOption, iter, entryA,
                 entryB, entryX, sweeps, retPath>>
  /\ UNCHANGED groupVars

\* lines 150-154
FirstSweepReturn ==
  /\ pc = "first"
  /\ i = n
  /\ possibleToTerminate
  /\ retPath' = "first"
  /\ pc' = "done"
  /\ UNCHANGED <<n, A, x, b, lo, hi, findex, nub, mOption, mCacheOrder,
                 possibleToTerminate, i, iter, entryA, entryB, entryX, sweeps,
                 lastSweep>>
  /\ UNCHANGED groupVars

\* lines 156-165
Normalize ==
  /\ pc = "first"
  /\ i = n
  /\ ~possibleToTerminate
  /\ A' = NormalizeA(A, n, mCacheOrder)
  /\ b' = NormalizeB(A, b, n, mCacheOrder)
  /\ iter' = 1
  /\ pc' = "loop"
  /\ UNCHANGED <<n, x, lo, hi, findex, nub, mOption, mCacheOrder,
                 possibleToTerminate, i, entryA, entryB, entryX, sweeps,
                 retPath, lastSweep>>
  /\ UNCHANGED groupVars

ShuffleEveryIteration == mOption.mRandomizeConstraintOrder

\* lines 167-169
ShuffleDue ==
  mOption.mRandomizeConstraintOrder /\ iter % 8 = 0

\* line 165, loop condition false: maxIteration exhausted
LoopExit ==
  /\ pc = "loop"
  /\ ~LoopContinues(iter, mOption.mMaxIteration)
  /\ retPath' = "exhausted"
  /\ pc' = "done"
  /\ UNCHANGED <<n, A, x, b, lo, hi, findex, nub, mOption, mCacheOrder,
                 possibleToTerminate, i, iter, entryA, entryB, entryX, sweeps,
                 lastSweep>>
  /\ UNCHANGED groupVars

\* lines 165-181 with the shuffle of lines 171-177
LoopShuffle ==
  /\ pc = "loop"
  /\ LoopContinues(iter, mOption.mMaxIteration)
  /\ ShuffleDue
  /\ mCacheOrder' \in Shuffled(mCacheOrder, 1)
  /\ possibleToTerminate' = TRUE
  /\ i' = 0
  /\ sweeps' = sweeps + 1
  /\ lastSweep' = <<>>
  /\ pc' = "sweep"
  /\ UNCHANGED <<n, A, x, b, lo, hi, findex, nub, mOption, iter, entryA,
                 entryB, entryX, retPath>>
  /\ UNCHANGED groupVars

\* lines 165-181 without shuffle
LoopNoShuffle ==
  /\ pc = "loop"
  /\ LoopContinues(iter, mOption.mMaxIteration)
  /\ ~ShuffleDue
  /\ possibleToTerminate' = TRUE
  /\ i' = 0
  /\ sweeps' = sweeps + 1
  /\ lastSweep' = <<>>
  /\ pc' = "sweep"
  /\ UNCHANGED <<n, A, x, b, lo, hi, findex, nub, mOption, mCacheOrder, iter,
                 entryA, entryB, entryX, retPath>>
  /\ UNCHANGED groupVars

\* lines 184-225, one row of the sweep (A and b are normalised)
SweepRow ==
  /\ pc = "sweep"
  /\ i < Len(mCacheOrder)
  /\ LET index == mCacheOrder[i + 1]
         old_x == x[index]
         new_x == SubDot(b[index], A, x, n, index, 0)
         v == Project(new_x, index, x, lo, hi, findex)
     IN  /\ x' = Upd(x, index, v)
         /\ possibleToTerminate' =
              (possibleToTerminate /\
                 ~(/\ RGt(RAbs(v), mOption.mEpsilonForDivision)
                   /\ RGt(RAbs(RDiv(RSub(v, old_x), v)),
                          mOption.mRelativeDeltaXTolerance)))
         /\ lastSweep' = Append(lastSweep, index)
  /\ i' = i + 1
  /\ UNCHANGED <<pc, n, A, b, lo, hi, findex, nub, mOption, mCacheOrder, iter,
                 entryA, entryB, entryX, sweeps, retPath>>
  /\ UNCHANGED groupVars

\* lines 227-228
SweepConverged ==
  /\ pc = "sweep"
  /\ i = Len(mCacheOrder)
  /\ possibleToTerminate
  /\ retPath' = "converged"
  /\ pc' = "done"
  /\ UNCHANGED <<n, A, x, b, lo, hi, findex, nub, mOption, mCacheOrder,
                 possibleToTerminate, i, iter, entryA, entryB, entryX, sweeps,
                 lastSweep>>
  /\ UNCHANGED groupVars

\* line 165, ++iter
SweepNext ==
  /\ pc = "sweep"
  /\ i = Len(mCacheOrder)
  /\ ~possibleToTerminate
  /\ iter' = iter + 1
  /\ pc' = "loop"
  /\ UNCHANGED <<n, A, x, b, lo, hi, findex, nub, mOption, mCacheOrder,
                 possibleToTerminate, i, entryA, entryB, entryX, sweeps,
                 retPath, lastSweep>>
  /\ UNCHANGED groupVars

NextPgs ==
  \/ SolveUnbounded
  \/ SolveBegin
  \/ FirstSweepDegenerate
  \/ FirstSweepRow
  \/ FirstSweepReturn
  \/ Normalize
  \/ LoopExit
  \/ LoopShuffle
  \/ LoopNoShuffle
  \/ SweepRow
  \/ SweepConverged
  \/ SweepNext

SpecPgs == InitPgs /\ [][NextPgs]_vars


(***************************************************************************)
(* Properties of the array-form solve.                                     *)
(***************************************************************************)
Returned == pc = "done"

Range(s) == {s[k] : k \in DOMAIN s}

\* row r had A[r,r] < epsilonForDivision when solve was entered
EntryDegenerate(r) == RLt(At(entryA, n, r, r), mOption.mEpsilonForDivision)

InBox(r) == x[r] # NaN /\ RLe(lo[r], x[r]) /\ RLe(x[r], hi[r])

\* C1 (as claimed): on every return path every row with findex < 0 is
\* inside its box [lo, hi].
C1_BoxContainmentAllPaths ==
  Returned => \A r \in Rows(n) : findex[r] < 0 => InBox(r)

\* C1 (amended): on return of the iterative path (nub < n) every row with
\* findex < 0 that entered the sweep order (A[r,r] >= epsilonForDivision)
\* is inside its box [lo, hi] (lo <= hi).
C1_BoxContainmentActiveRows ==
  (Returned /\ nub < n) =>
    \A r \in Rows(n) : (findex[r] < 0 /\ ~EntryDegenerate(r)) => InBox(r)

\* an active row sits clamped at its upper bound while a degenerate row
\* of the same call is outside its box
C1_Witness ==
  /\ Returned
  /\ nub < n
  /\ \E r \in Rows(n) :
       findex[r] < 0 /\ ~EntryDegenerate(r) /\ x[r] = hi[r] /\ RLt(lo[r], hi[r])
  /\ \E r \in Rows(n) : findex[r] < 0 /\ EntryDegenerate(r) /\ ~InBox(r)


\* position of row r in the sweep order (0 when absent)
PosIn(order, r) ==
  IF r \in Range(order) THEN CHOOSE k \in DOMAIN order : order[k] = r ELSE 0

\* the tolerance granted to "up to the convergence tolerance" and
\* "within the solver tolerance": the largest of the solver's thresholds
SolverTol == mOption.mDeltaXThreshold

\* C2 (as claimed): on return with nub < n every friction row r with
\* findex[r] = k >= 0 has |x[r]| <= hi[r] * |x[k]| up to the convergence
\* tolerance, wherever k stands relative to r in the sweep order.
C2_FrictionConeAnyOrder ==
  (Returned /\ nub < n) =>
    \A r \in Rows(n) :
      findex[r] >= 0 =>
        RLe(RAbs(x[r]), RAdd(RMul(hi[r], RAbs(x[findex[r]])), SolverTol))

\* x[k] was last written before x[r] was last projected
WrittenBefore(k, r) ==
  \/ (k \in Range(mCacheOrder) /\ r \in Range(mCacheOrder)
        /\ PosIn(mCacheOrder, k) < PosIn(mCacheOrder, r))
  \/ (EntryDegenerate(k) /\ r \in Range(mCacheOrder)
        /\ (k < r \/ sweeps >= 2))

\* C2 (amended): on return with nub < n, a friction row r with
\* findex[r] = k and hi[r] >= 0 has |x[r]| <= hi[r] * |x[k]| exactly when r is
\* degenerate (x[r] = 0) or x[k] was last written before r's last update
\* (k precedes r in the final sweep order, or k is a degenerate row zeroed
\* before r's last update).
C2_FrictionConeNormalFirst ==
  (Returned /\ nub < n) =>
    \A r \in Rows(n) :
      (findex[r] >= 0 /\ (EntryDegenerate(r) \/ WrittenBefore(findex[r], r))) =>
        RLe(RAbs(x[r]), RMul(hi[r], RAbs(x[findex[r]])))

\* a friction row clamped onto a non-trivial cone of a negative normal value
\* after a later sweep
C2_Witness ==
  /\ Returned
  /\ nub < n
  /\ sweeps >= 2
  /\ \E r \in Rows(n) :
       /\ findex[r] >= 0
       /\ WrittenBefore(findex[r], r)
       /\ RLt(x[findex[r]], Zero)
       /\ x[r] # Zero
       /\ RAbs(x[r]) = RMul(hi[r], RAbs(x[findex[r]]))

RECURSIVE Dot(_, _, _, _, _)
Dot(M, xx, nn, r, from) ==
  IF from >= nn THEN Zero
  ELSE RAdd(RMul(At(M, nn, r, from), xx[from]), Dot(M, xx, nn, r, from + 1))

\* w = A x - b of the problem as passed to solve, at the current x
Slack(r) == RSub(Dot(entryA, x, n, r, 0), entryB[r])

Complementary(r) ==
  \/ (x[r] = lo[r] /\ RLe(RNeg(SolverTol), Slack(r)))
  \/ (x[r] = hi[r] /\ RLe(Slack(r), SolverTol))
  \/ (RLt(lo[r], x[r]) /\ RLt(x[r], hi[r]) /\ RLe(RAbs(Slack(r)), SolverTol))

\* C3: when solve returns because a convergence test passed, every row of
\* the sweep order with findex < 0 satisfies the complementarity relation
\* with w = A x - b, within the solver tolerance.
C3_ConvergedIsComplementary ==
  (Returned /\ retPath \in {"first", "converged"}) =>
    \A r \in Range(mCacheOrder) : findex[r] < 0 => Complementary(r)

RowOf(M, r) == [c \in Rows(n) |-> At(M, n, r, c)]

FirstSweepPassed(r) ==
  (pc = "first" /\ i > r) \/ pc \in {"loop", "sweep", "done"}

\* C7: with nub < n a row with A[r,r] < epsilonForDivision never enters the
\* sweep order, has x[r] = 0 from its turn in the first sweep until return,
\* and its row of A and b[r] are never modified.
C7_DegenerateRowsInactive ==
  nub < n =>
    \A r \in Rows(n) :
      EntryDegenerate(r) =>
        /\ (pc # "solve" => r \notin Range(mCacheOrder))
        /\ RowOf(A, r) = RowOf(entryA, r)
        /\ b[r] = entryB[r]
        /\ (FirstSweepPassed(r) => x[r] = Zero)

\* a call that normalised an active row and swept again while a degenerate
\* row with non-zero incoming x and b stayed untouched
C7_Witness ==
  /\ Returned
  /\ nub < n
  /\ sweeps >= 2
  /\ \E r \in Rows(n) :
       EntryDegenerate(r) /\ entryX[r] # Zero /\ b[r] # Zero /\ x[r] = Zero
  /\ \E r \in Rows(n) : ~EntryDegenerate(r) /\ RowOf(A, r) # RowOf(entryA, r)

Max(a, c) == IF a >= c THEN a ELSE c

\* the guards of NextPgs leave no state before the return without a step
CanStep ==
  \/ pc = "solve"
  \/ (pc = "first" /\ i <= n)
  \/ pc = "loop"
  \/ (pc = "sweep" /\ i <= Len(mCacheOrder))

\* a measure that every step of solve decreases
Variant ==
  LET M == Max(1, mOption.mMaxIteration)
      S == n + 4
  IN  CASE pc = "done" -> 0
        [] pc = "solve" -> (M + 1) * S
        [] pc = "first" -> M * S + (n - i) + 1
        [] pc = "loop" -> (M - iter) * S + n + 3
        [] pc = "sweep" -> (M - iter) * S + (Len(mCacheOrder) - i) + 1

SweepBound ==
  /\ sweeps <= Max(1, mOption.mMaxIteration)
  /\ (nub < n /\ pc # "solve") => sweeps >= 1
  /\ nub >= n => sweeps = 0
  /\ retPath = "exhausted" => sweeps = Max(1, mOption.mMaxIteration)
  /\ ~Returned => CanStep
  /\ Variant >= 0

\* C8: solve always runs to its return: exactly one first sweep when
\* nub < n, never more than max(1, maxIteration) sweeps in total, on
\* exhaustion of maxIteration exactly max(1, maxIteration) sweeps, no state
\* before the return without a next step, and every step decreases a
\* non-negative measure (so the return is reached).
C8_BoundedSweeps == []SweepBound /\ [][Variant' < Variant]_vars

\* maxIteration exhausted after nine sweeps; and a call with
\* maxIteration = 0 returns after its first sweep
C8_Witness ==
  /\ Returned
  /\ retPath = "exhausted"
  /\ \/ (mOption.mMaxIteration = 9 /\ sweeps = 9)
     \/ (mOption.mMaxIteration = 0 /\ sweeps = 1)


(***************************************************************************)
(* SequentialImpulseConstraintSolver                                       *)
(***************************************************************************)
MaxConstraints == 2
MaxDim == 2

NULL == "null"
Dantzig == "dantzig"                 \* the instance made by the constructor
UserSolvers == {"pgs", "dantzig2"}   \* instances owned by the caller
Solvers == UserSolvers \cup {Dantzig}

\* memory that was allocated and never written
Garbage == "garbage"
GarbageVals == {Zero, One}

Groups ==
  UNION {[1 .. k -> 1 .. MaxDim] : k \in 0 .. MaxConstraints}

Worlds == {"symmetric", "ownSkewSmall", "ownSkewLarge"}

FindexKinds == {"free", "first", "last", "own"}

Envs ==
  [debug : BOOLEAN, world : Worlds, infoWritesX : BOOLEAN,
   findexKind : FindexKinds]

numConstraints == Len(group)
getDimension(c) == group[c + 1]

RECURSIVE getTotalDimension(_)
getTotalDimension(g) ==
  IF g = <<>> THEN 0 ELSE Head(g) + getTotalDimension(Tail(g))

\* lines 111-120: offset[0] = 0, offset[c] = offset[c-1] + dim(c-1)
RECURSIVE OffsetOf(_, _)
OffsetOf(g, c) == IF c = 0 THEN 0 ELSE OffsetOf(g, c - 1) + g[c]

\* the constraint that owns global row r
Owner(r) ==
  CHOOSE c \in 0 .. (numConstraints - 1) :
    offset[c] <= r /\ r < offset[c] + getDimension(c)

(* The constraints are external collaborators.  getInformation fills the   *)
(* constraint's slice of findex with local values in -1 .. dim-1; the      *)
(* constraints of a group all follow one of four conventions.              *)
FindexPattern(kind, dim) ==
  [l \in 0 .. (dim - 1) |->
     IF kind = "first" THEN (IF l = 0 THEN -1 ELSE 0)
     ELSE IF kind = "last" THEN (IF l = dim - 1 THEN -1 ELSE dim - 1)
     ELSE IF kind = "own" THEN l
     ELSE -1]

(* getVelocityChange: the velocity change of global row s caused by the    *)
(* unit impulse on global row r.  withBias adds the constraint's own       *)
(* regularisation on the diagonal.                                         *)
SkewSmall == <<1, 2000000>>

Response(world, sameOwner, r, s, withBias) ==
  LET base == IF r = s THEN Rat(IF withBias THEN 3 ELSE 2)
              ELSE Rat(((r + 1) * (s + 1)) % 3)
  IN  IF sameOwner /\ r < s /\ world = "ownSkewSmall" THEN RAdd(base, SkewSmall)
      ELSE IF sameOwner /\ r < s /\ world = "ownSkewLarge" THEN RAdd(base, One)
      ELSE base

ShiftAlways(v, off) == v + off

\* lines 144-145
ShiftFindex(v, off) == IF v >= 0 THEN v + off ELSE v

MirrorFromSelf(nSkip, row, col) == nSkip * row + col

\* line 165: index2, the entry of the upper triangle mirrored into (row, col)
MirrorSource(nSkip, row, col) == nSkip * col + row

\* a probe that fills the constraint's own block and the mirror only
ProbeRowOwnOnly(M, nn, row, off, world) ==
  LET nSkip == dPAD(nn)
  IN  [idx \in DOMAIN M |->
         LET r == idx \div nSkip
             c == idx % nSkip
         IN  IF r # row \/ c >= nn THEN M[idx]
             ELSE IF c >= off /\ Owner(c) = Owner(row)
             THEN Response(world, TRUE, row, c, TRUE)
             ELSE IF c >= off THEN M[idx]
             ELSE M[nSkip * c + row]]

\* lines 147-169 for row `row` = offset[i] + j of constraint i
ProbeRow(M, nn, row, off, world) ==
  LET nSkip == dPAD(nn)
  IN  [idx \in DOMAIN M |->
         LET r == idx \div nSkip
             c == idx % nSkip
         IN  IF r # row \/ c >= nn THEN M[idx]
             ELSE IF c >= off
             THEN Response(world, Owner(c) = Owner(row), row, c, Owner(c) = Owner(row))
             ELSE M[MirrorSource(nSkip, row, c)]]

SymTol == <<1, 1000000>>

SymPair(M, nn, r, c) ==
  /\ At(M, nn, r, c) # Garbage
  /\ At(M, nn, c, r) # Garbage
  /\ ~RGt(RAbs(RSub(At(M, nn, r, c), At(M, nn, c, r))), SymTol)

\* lines 248-278
isSymmetricRange(nn, M, begin, end) ==
  \A r \in begin .. end : \A c \in begin .. end : SymPair(M, nn, r, c)

\* lines 216-245
isSymmetric(nn, M) == isSymmetricRange(nn, M, 0, nn - 1)

ExciteTwice(ex, c) == [ex EXCEPT ![c] = @ + 2]
excite(ex, c) == [ex EXCEPT ![c] = @ + 1]

unexcite(ex, c) == [ex EXCEPT ![c] = @ - 1]

StaysExcited(ex, c) == ex

\* line 176: the constraint probed is unexcited before the next one
AfterProbes(ex, c) == unexcite(ex, c)

Call(op, c) == [op |-> op, c |-> c]

SetAlways(held, lcpSolver) == lcpSolver

\* lines 65-72: the pointer held after setBoxedLcpSolver(lcpSolver)
setBoxedLcpSolver(held, lcpSolver) ==
  IF lcpSolver = NULL THEN held ELSE lcpSolver

\* line 79
getBoxedLcpSolver == mBoxedLcpSolver

\* references held by the caller
CallerRefs(s) == IF s \in UserSolvers THEN 1 ELSE 0

Idle ==
  /\ pc = "idle"
  /\ n = 0
  /\ A = <<>>
  /\ x = <<>>
  /\ b = <<>>
  /\ lo = <<>>
  /\ hi = <<>>
  /\ findex = <<>>
  /\ w = <<>>
  /\ offset = <<>>
  /\ group = <<>>
  /\ env = <<>>
  /\ i = 0
  /\ j = 0
  /\ calls = <<>>
  /\ excited = <<>>
  /\ solvedBy = "none"
  /\ localFindex = <<>>

NoPgs ==
  /\ nub = 0
  /\ mOption = Option(0, FALSE)
  /\ mCacheOrder = <<>>
  /\ entryOrder = <<>>
  /\ possibleToTerminate = TRUE
  /\ iter = 0
  /\ entryA = <<>>
  /\ entryB = <<>>
  /\ entryX = <<>>
  /\ sweeps = 0
  /\ retPath = "none"
  /\ lastSweep = <<>>
  /\ mCacheOldX = <<>>
  /\ mCacheZ = <<>>
  /\ mCachedNormalizedA = <<>>
  /\ mCachedNormalizedB = <<>>

pgsOnly == <<nub, mOption, mCacheOrder, possibleToTerminate, iter, entryA,
             entryB, entryX, sweeps, retPath, lastSweep,
             mCacheOldX, mCacheZ, mCachedNormalizedA, mCachedNormalizedB,
             entryOrder>>

\* lines 53-59: the state after construction
Init ==
  /\ Idle
  /\ NoPgs
  /\ \E boxedLcpSolver \in UserSolvers \cup {NULL} :
       /\ mBoxedLcpSolver = IF boxedLcpSolver = NULL THEN Dantzig ELSE boxedLcpSolver
       /\ supplied = [last |-> boxedLcpSolver, lastNonNull |-> boxedLcpSolver]
       /\ useCount = [s \in Solvers |->
                        CallerRefs(s) + (IF s = mBoxedLcpSolver THEN 1 ELSE 0)]

\* lines 62-73
SetBoxedLcpSolver ==
  /\ pc = "idle"
  /\ \E lcpSolver \in UserSolvers \cup {NULL} :
       LET held == setBoxedLcpSolver(mBoxedLcpSolver, lcpSolver)
       IN  /\ mBoxedLcpSolver' = held
           /\ useCount' =
                IF held = mBoxedLcpSolver THEN useCount
                ELSE [useCount EXCEPT ![mBoxedLcpSolver] = @ - 1, ![held] = @ + 1]
           /\ supplied' = [last |-> lcpSolver,
                           lastNonNull |-> IF lcpSolver # NULL THEN lcpSolver
                                           ELSE supplied.lastNonNull]
  /\ UNCHANGED <<pc, n, A, x, b, lo, hi, findex, i, group, env, w, offset, j,
                 calls, excited, solvedBy, localFindex>>
  /\ UNCHANGED pgsOnly

\* lines 87-123: allocation, memset, offsets
Begin ==
  /\ pc = "idle"
  /\ \E g \in Groups, e \in Envs, garbage \in GarbageVals :
       LET nn == getTotalDimension(g)
           nSkip == dPAD(nn)
       IN  IF nn = 0
           THEN UNCHANGED <<pc, n, A, x, b, lo, hi, findex, i, group, env, w,
                            offset, j, calls, excited, localFindex>>
           ELSE /\ group' = g
                /\ env' = e
                /\ n' = nn
                /\ A' = [idx \in 0 .. (nn * nSkip - 1) |->
                           IF e.debug THEN Zero ELSE Garbage]
                /\ x' = [r \in Rows(nn) |-> garbage]
                /\ b' = [r \in Rows(nn) |-> Garbage]
                /\ lo' = [r \in Rows(nn) |-> Garbage]
                /\ hi' = [r \in Rows(nn) |-> Garbage]
                /\ w' = [r \in Rows(nn) |-> Zero]
                /\ findex' = [r \in Rows(nn) |-> -1]
                /\ localFindex' = [r \in Rows(nn) |-> -1]
                /\ offset' = [c \in 0 .. (Len(g) - 1) |-> OffsetOf(g, c)]
                /\ excited' = [c \in 0 .. (Len(g) - 1) |-> 0]
                /\ calls' = <<>>
                /\ i' = 0
                /\ j' = 0
                /\ pc' = "info"
  /\ UNCHANGED <<mBoxedLcpSolver, useCount, supplied, solvedBy>>
  /\ UNCHANGED pgsOnly

Slice(c) == offset[c] .. (offset[c] + getDimension(c) - 1)

\* lines 127-140: getInformation fills the slices, then excite
GetInformation ==
  /\ pc = "info"
  /\ LET fl == FindexPattern(env.findexKind, getDimension(i))
     IN
       /\ findex' = [r \in Rows(n) |->
                       IF r \in Slice(i) THEN fl[r - offset[i]] ELSE findex[r]]
       /\ localFindex' = [r \in Rows(n) |->
                            IF r \in Slice(i) THEN fl[r - offset[i]] ELSE localFindex[r]]
  /\ x' = [r \in Rows(n) |-> IF r \in Slice(i) /\ env.infoWritesX THEN Zero ELSE x[r]]
  /\ b' = [r \in Rows(n) |-> IF r \in Slice(i) THEN One ELSE b[r]]
  /\ lo' = [r \in Rows(n) |-> IF r \in Slice(i) THEN Zero ELSE lo[r]]
  /\ hi' = [r \in Rows(n) |-> IF r \in Slice(i) THEN Rat(4) ELSE hi[r]]
  /\ calls' = calls \o <<Call("getInformation", i), Call("excite", i)>>
  /\ excited' = excite(excited, i)
  /\ j' = 0
  /\ pc' = "probe"
  /\ UNCHANGED <<n, A, i, group, env, w, offset, mBoxedLcpSolver, useCount,
                 supplied, solvedBy>>
  /\ UNCHANGED pgsOnly

\* lines 141-170, one pass of the loop over j
Probe ==
  /\ pc = "probe"
  /\ j < getDimension(i)
  /\ findex' = [findex EXCEPT ![offset[i] + j] = ShiftFindex(@, offset[i])]
  /\ A' = ProbeRow(A, n, offset[i] + j, offset[i], env.world)
  /\ calls' = calls \o
       <<Call("applyUnitImpulse", i), Call("getVelocityChange", i)>> \o
       [k \in 1 .. (numConstraints - 1 - i) |-> Call("getPeerVelocityChange", i + k)]
  /\ j' = j + 1
  /\ UNCHANGED <<pc, n, x, b, lo, hi, i, group, env, w, offset, excited,
                 mBoxedLcpSolver, useCount, supplied, solvedBy, localFindex>>
  /\ UNCHANGED pgsOnly

\* lines 172-177: the assertion (debug builds), unexcite, next constraint
EndConstraint ==
  /\ pc = "probe"
  /\ j = getDimension(i)
  /\ IF env.debug /\ ~isSymmetricRange(n, A, offset[i], offset[i] + getDimension(i) - 1)
     THEN /\ pc' = "aborted"
          /\ UNCHANGED <<calls, excited, i>>
     ELSE /\ calls' = Append(calls, Call("unexcite", i))
          /\ excited' = AfterProbes(excited, i)
          /\ i' = i + 1
          /\ pc' = IF i + 1 < numConstraints THEN "info" ELSE "assembled"
  /\ UNCHANGED <<n, A, x, b, lo, hi, findex, group, env, w, offset, j,
                 mBoxedLcpSolver, useCount, supplied, solvedBy, localFindex>>
  /\ UNCHANGED pgsOnly

\* lines 179-187: the assertions before the solver is invoked
AssertSymmetric ==
  /\ pc = "assembled"
  /\ pc' = IF env.debug /\ ~(isSymmetric(n, A) /\ mBoxedLcpSolver # NULL)
           THEN "aborted" ELSE "solve"
  /\ UNCHANGED <<n, A, x, b, lo, hi, findex, i, group, env, w, offset, j,
                 calls, excited, mBoxedLcpSolver, useCount, supplied, solvedBy,
                 localFindex>>
  /\ UNCHANGED pgsOnly

\* line 188: the boxed solver writes x
Solve ==
  /\ pc = "solve"
  /\ solvedBy' = mBoxedLcpSolver
  /\ \E v \in {Zero, One} : x' = [r \in Rows(n) |-> v]
  /\ i' = 0
  /\ pc' = "apply"
  /\ UNCHANGED <<n, A, b, lo, hi, findex, group, env, w, offset, j, calls,
                 excited, mBoxedLcpSolver, useCount, supplied, localFindex>>
  /\ UNCHANGED pgsOnly

\* lines 196-201, one pass of the loop
ApplyImpulse ==
  /\ pc = "apply"
  /\ i < numConstraints
  /\ calls' = calls \o <<Call("applyImpulse", i), Call("excite", i)>>
  /\ excited' = excite(excited, i)
  /\ i' = i + 1
  /\ UNCHANGED <<pc, n, A, x, b, lo, hi, findex, group, env, w, offset, j,
                 mBoxedLcpSolver, useCount, supplied, solvedBy, localFindex>>
  /\ UNCHANGED pgsOnly

\* lines 203-212: the buffers are freed and the call returns
Return ==
  /\ pc = "apply"
  /\ i = numConstraints
  /\ pc' = "idle"
  /\ n' = 0
  /\ A' = <<>>
  /\ x' = <<>>
  /\ b' = <<>>
  /\ lo' = <<>>
  /\ hi' = <<>>
  /\ findex' = <<>>
  /\ w' = <<>>
  /\ offset' = <<>>
  /\ group' = <<>>
  /\ env' = <<>>
  /\ i' = 0
  /\ j' = 0
  /\ calls' = <<>>
  /\ excited' = <<>>
  /\ solvedBy' = "none"
  /\ localFindex' = <<>>
  /\ UNCHANGED <<mBoxedLcpSolver, useCount, supplied>>
  /\ UNCHANGED pgsOnly

Next ==
  \/ SetBoxedLcpSolver
  \/ Begin
  \/ GetInformation
  \/ Probe
  \/ EndConstraint
  \/ AssertSymmetric
  \/ Solve
  \/ ApplyImpulse
  \/ Return

Spec == Init /\ [][Next]_vars

(***************************************************************************)
(* Properties of solveConstrainedGroup and of the solver pointer.          *)
(***************************************************************************)
Constraints == 0 .. (numConstraints - 1)

AtSolve == pc = "solve"

\* C4: when the boxed solver's solve is invoked, every entry of x is zero,
\* whatever getInformation did with the x slices.
C4_XZeroAtSolve ==
  AtSolve => \A r \in Rows(n) : x[r] = Zero

OwnBlocksSymmetric ==
  \A c \in Constraints :
    isSymmetricRange(n, A, offset[c], offset[c] + getDimension(c) - 1)

\* C5: when the assembly loop is over and the solver is about to be invoked,
\* two entries A[r,c] and A[c,r] owned by different constraints are exactly
\* equal, and if every constraint's own block is symmetric within 1e-6 then
\* the whole leading n x n block is symmetric within 1e-6.
C5_SymmetricAfterAssembly ==
  AtSolve =>
    /\ \A r \in Rows(n) : \A c \in Rows(n) :
         Owner(r) # Owner(c) =>
           /\ At(A, n, r, c) # Garbage
           /\ At(A, n, r, c) = At(A, n, c, r)
    /\ OwnBlocksSymmetric => isSymmetric(n, A)
    /\ env.debug => isSymmetric(n, A)

C5_Witness ==
  /\ AtSolve
  /\ numConstraints = 2
  /\ getDimension(1) = 2
  /\ env.world = "ownSkewSmall"
  /\ isSymmetric(n, A)
  /\ At(A, n, offset[1], 0) # Zero
  /\ At(A, n, offset[1], offset[1] + 1) # At(A, n, offset[1] + 1, offset[1])

\* the calls made on constraint c itself, in order
OwnCalls(c) ==
  SelectSeq(calls, LAMBDA e : e.c = c /\ e.op # "getPeerVelocityChange")

RECURSIVE Probes(_, _)
Probes(c, k) ==
  IF k = 0 THEN <<>>
  ELSE <<Call("applyUnitImpulse", c), Call("getVelocityChange", c)>> \o Probes(c, k - 1)

ExpectedCalls(c) ==
  <<Call("getInformation", c), Call("excite", c)>> \o
  Probes(c, getDimension(c)) \o
  <<Call("unexcite", c), Call("applyImpulse", c), Call("excite", c)>>

IsPrefix(s1, s2) ==
  /\ Len(s1) <= Len(s2)
  /\ \A k \in 1 .. Len(s1) : s1[k] = s2[k]

AboutToReturn == pc = "apply" /\ i = numConstraints

\* C6: the calls on each constraint come in the order getInformation, excite,
\* its unit-impulse probes, unexcite and, only after the solve, applyImpulse,
\* excite; while probing only the constraint being probed is excited, and at
\* return every constraint has one more excite than unexcite.
C6_CallOrderAndExciteBalance ==
  pc # "idle" =>
    /\ \A c \in Constraints : IsPrefix(OwnCalls(c), ExpectedCalls(c))
    /\ pc \in {"info", "assembled", "solve"} =>
         \A c \in Constraints : excited[c] = 0
    /\ pc = "probe" =>
         \A c \in Constraints : excited[c] = IF c = i THEN 1 ELSE 0
    /\ pc # "apply" =>
         \A k \in 1 .. Len(calls) : calls[k].op # "applyImpulse"
    /\ pc = "apply" =>
         /\ solvedBy # "none"
         /\ \A c \in Constraints : excited[c] = IF c < i THEN 1 ELSE 0
    /\ AboutToReturn =>
         \A c \in Constraints :
           /\ OwnCalls(c) = ExpectedCalls(c)
           /\ excited[c] = 1

C6_Witness ==
  /\ AboutToReturn
  /\ numConstraints = 2
  /\ getDimension(0) = 2
  /\ Len(calls) > Len(ExpectedCalls(0)) + Len(ExpectedCalls(1))

\* C9: the solver always holds a non-null boxed solver: the last non-null
\* one supplied to the constructor or to setBoxedLcpSolver, or the Dantzig
\* default when none was; it holds exactly one reference, to that instance;
\* and solve is invoked on that instance.
C9_NonNullSolverPointer ==
  /\ getBoxedLcpSolver # NULL
  /\ getBoxedLcpSolver =
       IF supplied.lastNonNull = NULL THEN Dantzig ELSE supplied.lastNonNull
  /\ \A s \in Solvers :
       useCount[s] = CallerRefs(s) + (IF s = getBoxedLcpSolver THEN 1 ELSE 0)
  /\ solvedBy # "none" => solvedBy = getBoxedLcpSolver

C9_Witness ==
  /\ pc = "apply"
  /\ supplied.last = NULL
  /\ supplied.lastNonNull = "pgs"
  /\ solvedBy = "pgs"
  /\ useCount[Dantzig] = 0

RECURSIVE SumDims(_, _)
SumDims(from, to) ==
  IF from > to THEN 0 ELSE getDimension(from) + SumDims(from + 1, to)

\* C10: offset[c] is the sum of the dimensions of the constraints before c;
\* when solve is invoked, a findex entry that constraint c filled with a
\* local value v >= 0 holds v + offset[c], a row of c's own slice, and an
\* entry filled with -1 holds -1.
C10_FindexShiftedOnce ==
  AtSolve =>
    /\ \A c \in Constraints : offset[c] = SumDims(0, c - 1)
    /\ \A r \in Rows(n) :
         LET c == Owner(r)
         IN  IF localFindex[r] >= 0
             THEN /\ findex[r] = localFindex[r] + SumDims(0, c - 1)
                  /\ findex[r] \in Slice(c)
             ELSE findex[r] = -1

C10_Witness ==
  /\ AtSolve
  /\ numConstraints = 2
  /\ \E r \in Slice(1) : localFindex[r] >= 0 /\ findex[r] > localFindex[r]
  /\ \E r \in Slice(1) : localFindex[r] = -1

(***************************************************************************)
(* PgsBoxedLcpSolver::solve, matrix form (Eigen overloads).  The two       *)
(* overloads have the same body; frictionIndex is ignored.                 *)
(***************************************************************************)
RECURSIVE StrictlyUpperTimes(_, _, _, _, _)
\* row r of A.triangularView<StrictlyUpper>() * x, summed from column c
StrictlyUpperTimes(M, xx, nn, r, c) ==
  IF c >= nn THEN Zero
  ELSE IF c <= r THEN StrictlyUpperTimes(M, xx, nn, r, c + 1)
  ELSE RAdd(RMul(At(M, nn, r, c), xx[c]), StrictlyUpperTimes(M, xx, nn, r, c + 1))

RhsPlusB(M, xx, bb, nn) ==
  [r \in Rows(nn) |-> RSub(bb[r], StrictlyUpperTimes(M, xx, nn, r, 0))]

\* mCacheZ = -b; mCacheZ -= StrictlyUpper(A) * x
Rhs(M, xx, bb, nn) ==
  [r \in Rows(nn) |-> RSub(RNeg(bb[r]), StrictlyUpperTimes(M, xx, nn, r, 0))]

RECURSIVE LowerDot(_, _, _, _, _)
LowerDot(M, sol, nn, r, c) ==
  IF c >= r THEN Zero
  ELSE RAdd(RMul(At(M, nn, r, c), sol[c]), LowerDot(M, sol, nn, r, c + 1))

RECURSIVE LowerSolve(_, _, _, _, _)
\* forward substitution up to row r; unit = the diagonal is taken as one
LowerSolve(M, z, nn, unit, r) ==
  IF r < 0 THEN <<>>
  ELSE LET prev == LowerSolve(M, z, nn, unit, r - 1)
           num == RSub(z[r], LowerDot(M, prev, nn, r, 0))
           v == IF unit THEN num ELSE RDiv(num, At(M, nn, r, r))
       IN  [k \in 0 .. r |-> IF k = r THEN v ELSE prev[k]]

\* lines 473-479
sweepForward(M, xx, bb, nn) ==
  LET z == Rhs(M, xx, bb, nn)
  IN  [z |-> z, x |-> LowerSolve(M, z, nn, FALSE, nn - 1)]

\* lines 483-488
sweepForwardNormalized(M, xx, bb, nn) ==
  LET z == Rhs(M, xx, bb, nn)
  IN  [z |-> z, x |-> LowerSolve(M, z, nn, TRUE, nn - 1)]

\* line 338: A.array().colwise() / A.diagonal().array()
NormalizedA(M, nn) ==
  [idx \in DOMAIN M |->
     LET r == idx \div dPAD(nn)
     IN  RDiv(M[idx], At(M, nn, r, r))]

\* line 339
NormalizedB(M, bb, nn) == [r \in Rows(nn) |-> RDiv(bb[r], At(M, nn, r, r))]

RMax(a, c) == IF RLt(a, c) THEN c ELSE a
RMin(a, c) == IF RLt(c, a) THEN c ELSE a

\* lines 348, 367: x.cwiseMax(lo).cwiseMin(hi)
ProjectBox(xx, loo, hii) ==
  [r \in DOMAIN xx |-> RMin(RMax(xx[r], loo[r]), hii[r])]

\* lines 351-352, 370-371
EarlyTermination(xx, old, threshold) ==
  \E r \in DOMAIN xx : RLe(RAbs(RSub(xx[r], old[r])), threshold)

EigenDiagVals == {1, 2}
EigenBVals == {-2, 4}
EigenMaxIterations == {1, 2, 3}

EigenMatricesOf(nn, offs) ==
  {Flat(nn, D, o) : D \in [Rows(nn) -> EigenDiagVals], o \in offs}

InitEigen ==
  /\ pc = "solve"
  /\ n \in Dims
  /\ \/ /\ nub = 0
        /\ A \in EigenMatricesOf(n, OffVals)
        /\ x \in {RatVec(f) : f \in [Rows(n) -> XVals]}
     \/ /\ nub = n
        /\ A \in EigenMatricesOf(n, {0})
        /\ x = [r \in Rows(n) |-> Zero]
  /\ b \in {RatVec(f) : f \in [Rows(n) -> EigenBVals]}
  /\ \E bx \in Boxes :
       /\ lo = [r \in Rows(n) |-> Rat(bx[1])]
       /\ hi = [r \in Rows(n) |-> Rat(bx[2])]
  /\ findex = [r \in Rows(n) |-> -1]
  /\ mOption \in {Option(m, FALSE) : m \in EigenMaxIterations}
  /\ mCacheOrder = <<>>
  /\ entryOrder = <<>>
  /\ possibleToTerminate = TRUE
  /\ i = 0
  /\ iter = 0
  /\ entryA = A
  /\ entryB = b
  /\ entryX = x
  /\ sweeps = 0
  /\ retPath = "none"
  /\ lastSweep = <<>>
  /\ NoGroup
  /\ NoEigen

eigenFrame == <<n, A, b, lo, hi, findex, nub, mOption, mCacheOrder,
                possibleToTerminate, entryA, entryB, entryX, lastSweep>>

\* lines 321-325
EigenSolveUnbounded ==
  /\ pc = "solve"
  /\ nub >= n
  /\ x' = dSolveLDLT(A, b, n)
  /\ retPath' = "ldlt"
  /\ pc' = "done"
  /\ UNCHANGED <<i, iter, sweeps, mCacheOldX, mCacheZ, mCachedNormalizedA,
                 mCachedNormalizedB>>
  /\ UNCHANGED eigenFrame
  /\ UNCHANGED <<group, env, w, offset, j, calls, excited, mBoxedLcpSolver,
                 useCount, supplied, solvedBy, localFindex, entryOrder>>

\* lines 327-341 and 358-360: choice of the loop, normalisation
EigenBegin ==
  /\ pc = "solve"
  /\ nub < n
  /\ IF n < mOption.mMaxIteration
     THEN /\ mCachedNormalizedA' = NormalizedA(A, n)
          /\ mCachedNormalizedB' = NormalizedB(A, b, n)
          /\ pc' = "loopNormalized"
     ELSE /\ UNCHANGED <<mCachedNormalizedA, mCachedNormalizedB>>
          /\ pc' = "loopPlain"
  /\ i' = 0
  /\ UNCHANGED <<x, iter, sweeps, retPath, mCacheOldX, mCacheZ>>
  /\ UNCHANGED eigenFrame
  /\ UNCHANGED <<group, env, w, offset, j, calls, excited, mBoxedLcpSolver,
                 useCount, supplied, solvedBy, localFindex, entryOrder>>

\* lines 341 and 360, loop condition false
EigenLoopExit ==
  /\ pc \in {"loopNormalized", "loopPlain"}
  /\ ~(i < mOption.mMaxIteration)
  /\ retPath' = "exhausted"
  /\ pc' = "done"
  /\ UNCHANGED <<x, i, iter, sweeps, mCacheOldX, mCacheZ, mCachedNormalizedA,
                 mCachedNormalizedB>>
  /\ UNCHANGED eigenFrame
  /\ UNCHANGED <<group, env, w, offset, j, calls, excited, mBoxedLcpSolver,
                 useCount, supplied, solvedBy, localFindex, entryOrder>>

\* lines 343-345 and 362-364: remember x, sweep forward
EigenSweep ==
  /\ pc \in {"loopNormalized", "loopPlain"}
  /\ i < mOption.mMaxIteration
  /\ mCacheOldX' = x
  /\ LET s == IF pc = "loopNormalized"
              THEN sweepForwardNormalized(mCachedNormalizedA, x, mCachedNormalizedB, n)
              ELSE sweepForward(A, x, b, n)
     IN  /\ mCacheZ' = s.z
         /\ x' = s.x
  /\ sweeps' = sweeps + 1
  /\ pc' = IF pc = "loopNormalized" THEN "projectNormalized" ELSE "projectPlain"
  /\ UNCHANGED <<i, iter, retPath, mCachedNormalizedA, mCachedNormalizedB>>
  /\ UNCHANGED eigenFrame
  /\ UNCHANGED <<group, env, w, offset, j, calls, excited, mBoxedLcpSolver,
                 useCount, supplied, solvedBy, localFindex, entryOrder>>

\* lines 347-356 and 366-375: projection, early termination, next iteration
EigenProject ==
  /\ pc \in {"projectNormalized", "projectPlain"}
  /\ LET px == ProjectBox(x, lo, hi)
     IN  /\ x' = px
         /\ IF EarlyTermination(px, mCacheOldX, mOption.mDeltaXThreshold)
            THEN /\ retPath' = "converged"
                 /\ pc' = "done"
                 /\ i' = i
            ELSE /\ retPath' = retPath
                 /\ pc' = IF pc = "projectNormalized" THEN "loopNormalized"
                          ELSE "loopPlain"
                 /\ i' = i + 1
  /\ UNCHANGED <<iter, sweeps, mCacheOldX, mCacheZ, mCachedNormalizedA,
                 mCachedNormalizedB>>
  /\ UNCHANGED eigenFrame
  /\ UNCHANGED <<group, env, w, offset, j, calls, excited, mBoxedLcpSolver,
                 useCount, supplied, solvedBy, localFindex, entryOrder>>

NextEigen ==
  \/ EigenSolveUnbounded
  \/ EigenBegin
  \/ EigenLoopExit
  \/ EigenSweep
  \/ EigenProject

SpecEigen == InitEigen /\ [][NextEigen]_vars

JustSwept == pc \in {"projectNormalized", "projectPlain"}

RECURSIVE LowerTimes(_, _, _, _, _)
\* row r of (L + D) * x, summed from column c
LowerTimes(M, xx, nn, r, c) ==
  IF c > r THEN Zero
  ELSE RAdd(RMul(At(M, nn, r, c), xx[c]), LowerTimes(M, xx, nn, r, c + 1))

\* C11: one forward sweep of the matrix-form solve (nub < n) leaves in x the
\* solution of (L + D) x = b - U x_old, and the projection that follows
\* leaves min(max(x, lo), hi); from x = 0 with A = [[2]], b = [4] and wide
\* bounds one sweep gives x = 2.
C11_SweepSolvesLowerSystem ==
  JustSwept =>
    \A r \in Rows(n) :
      LowerTimes(entryA, x, n, r, 0) = RhsPlusB(entryA, mCacheOldX, entryB, n)[r]

\* C12: when the boxed solver is invoked, every entry of the leading n x n
\* block of A has been assigned during assembly, also in a release build
\* where A is not zeroed.
C12_LeadingBlockAssigned ==
  AtSolve =>
    \A r \in Rows(n) : \A c \in Rows(n) : At(A, n, r, c) # Garbage

C12_Witness ==
  /\ AtSolve
  /\ ~env.debug
  /\ numConstraints = 2
  /\ n = 3
  /\ At(A, n, 0, n) = Garbage
  /\ \A r \in Rows(n) : \A c \in Rows(n) : At(A, n, r, c) # Garbage

(***************************************************************************)
(* The sweep order of the array-form solve.                                *)
(***************************************************************************)
ActiveRows == {r \in Rows(n) : ~EntryDegenerate(r)}

NoDuplicates(order) == Cardinality(Range(order)) = Len(order)

Ascending(order) ==
  \A k \in 1 .. (Len(order) - 1) : order[k] < order[k + 1]

Iterative == nub < n /\ pc # "solve"

FirstSweepOver == Iterative /\ (pc \in {"loop", "sweep", "done"} \/ i = n)

LaterSweepOver ==
  /\ Iterative
  /\ sweeps >= 2
  /\ pc = "sweep" => i = Len(mCacheOrder)

\* C13: with nub < n, while the first sweep runs the order holds only rows
\* the sweep has already passed; once it is over the order is a
\* duplicate-free list of exactly the rows whose diagonal was at least
\* epsilonForDivision, and stays one through every shuffle; every later
\* sweep visits each of those rows once and no other row; without
\* randomisation the order and every sweep are ascending.
C13_SweepOrderIsActiveRows ==
  /\ (Iterative /\ pc = "first") =>
       /\ NoDuplicates(mCacheOrder)
       /\ Range(mCacheOrder) = {r \in ActiveRows : r < i}
  /\ FirstSweepOver =>
       /\ NoDuplicates(mCacheOrder)
       /\ Range(mCacheOrder) = ActiveRows
  /\ LaterSweepOver =>
       /\ NoDuplicates(lastSweep)
       /\ Range(lastSweep) = ActiveRows
  /\ (Iterative /\ ~mOption.mRandomizeConstraintOrder) =>
       /\ Ascending(mCacheOrder)
       /\ Ascending(lastSweep)

C13_Witness ==
  /\ pc = "done"
  /\ nub < n
  /\ entryOrder = <<0>>
  /\ mOption.mRandomizeConstraintOrder
  /\ sweeps >= 9
  /\ mCacheOrder = <<1, 0>>
  /\ lastSweep = <<1, 0>>

OrderChanges == pc \in {"loop", "sweep"} /\ mCacheOrder' # mCacheOrder

\* C14 (as claimed): after the first sweep the order changes only at the
\* start of an iteration with iter mod 8 = 0 and randomisation enabled, and
\* such a change keeps the entry at position 0.
C14_ShuffleKeepsPositionZero ==
  [][OrderChanges =>
       /\ pc = "loop"
       /\ mOption.mRandomizeConstraintOrder
       /\ iter % 8 = 0
       /\ mCacheOrder'[1] = mCacheOrder[1]]_vars

\* C14: after the first sweep the order changes only at the start of an
\* iteration with iter mod 8 = 0 and randomisation enabled; the new order
\* is a permutation of the old one, and its entry at position 0 may differ.
C14_ShuffleOnlyEveryEighth ==
  [][OrderChanges =>
       /\ pc = "loop"
       /\ mOption.mRandomizeConstraintOrder
       /\ iter % 8 = 0
       /\ Len(mCacheOrder') = Len(mCacheOrder)
       /\ Range(mCacheOrder') = Range(mCacheOrder)]_vars

C14_Witness ==
  /\ pc = "sweep"
  /\ iter = 8
  /\ i = 0
  /\ mCacheOrder = <<1, 0>>

====
